---- MODULE Spec2Model ----
(***************************************************************************)
(* Model of the AI Redirect Mapper (src/app.py): the page fetcher with its *)
(* retry recursion, the sequential crawl loop, the batch matching loop and *)
(* the "Start Matching" handler that drives them over the session state.   *)
(***************************************************************************)
EXTENDS Integers, Sequences, FiniteSets, TLC

VARIABLES
    \* ---- fetch_page_content (one call, its recursion unrolled) ----
    net,            \* outcomes the network can produce for a request
    fetch_pc,       \* "idle" | "request" | "done" | "raised"
    url,            \* argument url
    retry_count,    \* argument retry_count of the current recursion level
    max_retries,    \* argument max_retries
    outcomes,       \* outcome of every requests.get made by this call, in order
    waits,          \* every time.sleep made by this call, in order
    fetch_result,   \* the returned record
    \* ---- crawl_urls ----
    crawl_pc,       \* "idle" | "loop" | "fetching" | "done" | "raised"
    url_list,       \* argument url_list
    i,              \* loop index (0-based, as enumerate gives it)
    results,        \* local results
    auth_required,  \* local auth_required
    progress,       \* last value given to progress_bar.progress, as num/den
    status_text,    \* last text given to status_text.text: index shown and url
    \* ---- match_urls ----
    match_pc,       \* "idle" | "loop" | "done" | "raised"
    model_name,     \* argument model_name
    crawled,        \* argument crawled
    old_data,       \* old_data after the preprocessing of lines 174-179
    new_data,       \* new_data after the preprocessing of lines 174-176
    batch_size,     \* local batch_size
    total_batches,  \* local total_batches
    batch_num,      \* loop index
    all_matches,    \* local all_matches
    requests,       \* the prompt of every generate_content call, in order
    responses,      \* what the inference service did on each call, in order
    match_events,   \* "invoke", "error" (st.error) and "sleep" (1.5) in order
    match_progress, \* last value given to progress_bar.progress, as num/den
    \* ---- st.session_state ----
    matches,
    crawl_results_old,
    crawl_results_new,
    processing,
    processing_complete,
    auth_required_urls,
    \* ---- widgets, as the script reads them on a run ----
    api_key,        \* the key field is not empty
    old_file,       \* a file is uploaded on the old side
    new_file,       \* a file is uploaded on the new side
    old_urls,       \* parse_urls of the old file
    new_urls,       \* parse_urls of the new file
    crawl_enabled,  \* the "Crawl page content" checkbox
    model_choice,   \* the model radio
    \* ---- the "Start Matching" handler ----
    run_pc,         \* "idle" | "crawl_old" | "crawl_new" | "match"
    ui_error,       \* last st.error of the handler: "none" | "api_key" | "files" | "exception"
    runs,           \* number of presses of Start Matching so far
    \* ---- the results section ----
    stats           \* the four metrics of lines 483-486 as last drawn

fetch_vars == <<fetch_pc, url, retry_count, max_retries, outcomes, waits, fetch_result>>

crawl_vars == <<crawl_pc, url_list, i, results, auth_required, progress, status_text>>

match_vars == <<match_pc, model_name, crawled, old_data, new_data, batch_size, total_batches,
                batch_num, all_matches, requests, responses, match_events, match_progress>>

session_vars == <<matches, crawl_results_old, crawl_results_new, processing,
                  processing_complete, auth_required_urls>>

widget_vars == <<api_key, old_file, new_file, old_urls, new_urls, crawl_enabled, model_choice>>

run_vars == <<session_vars, widget_vars, run_pc, ui_error, runs, stats>>

vars == <<net, fetch_vars, crawl_vars, match_vars, run_vars>>

\* ------------------------------------------------------------------------
\* Bounds and input universes
\* ------------------------------------------------------------------------
Urls == {1, 2}

\* the urls the files uploaded in a session are made of
OldSite == {1}

NewSite == {2}

\* longest url list given to a stand-alone crawl
MaxCrawlUrls == 2

\* longest url file uploaded in a session
MaxRunUrls == 1
\* most runs started in a session
MaxRuns == 2

\* longest old item list given to a stand-alone match_urls
MaxItems == 101
\* longest new item list given to a stand-alone match_urls
MaxNewItems == 3

\* largest max_retries argument tried by the stand-alone fetch specification
MaxMaxRetries == 3
\* largest retry_count argument a stand-alone fetch is started with
MaxStartRetry == 2

\* most match records in a summarised list
MaxMatches == 3

\* HTTP error statuses raise_for_status can report in the model
HttpCodes == {400, 401, 403, 404, 429, 500, 502, 503, 504}

\* every sequence over S of length at most n
SeqsUpTo(S, n) == UNION {[1..k -> S] : k \in 0..n}

Outcome(k, c) == [kind |-> k, code |-> c]

AllOutcomes ==
    {Outcome("ok", 200), Outcome("timeout", 0), Outcome("exception", 0)}
        \cup {Outcome("http", c) : c \in HttpCodes}

\* ------------------------------------------------------------------------
\* fetch_page_content
\* ------------------------------------------------------------------------
DefaultMaxRetries == 3

AuthCodes == {401, 403}

RetryableCodes == {429, 500, 502, 503, 504}

RECURSIVE Pow(_, _)
Pow(b, e) == IF e = 0 THEN 1 ELSE b * Pow(b, e - 1)

NoError == [msg |-> "None", code |-> 0]

NoResult == [url |-> 0, content |-> "", status |-> "none", error |-> NoError]

\* the record returned by every failure path: empty signals, a status, an error
Failure(u, st, msg, code) ==
    [url |-> u, content |-> "", status |-> st, error |-> [msg |-> msg, code |-> code]]

\* What one handler of the try statement does: return a record, or sleep
\* and recurse with retry_count + 1, or let the exception escape.
Return(r) == [next |-> "done", sleep |-> 0, result |-> r]
Retry(s) == [next |-> "request", sleep |-> s, result |-> NoResult]
Raise == [next |-> "raised", sleep |-> 0, result |-> NoResult]

OnSuccess(u) ==
    Return([url |-> u, content |-> "extracted", status |-> "success", error |-> NoError])

\* mutant: one retry too many
OnTimeout_OffByOne(u, rc, mr) ==
    IF rc <= mr
    THEN Retry(Pow(2, rc))
    ELSE Return(Failure(u, "failed", "Timeout", 0))

OnTimeout(u, rc, mr) ==
    IF rc < mr
    THEN Retry(Pow(2, rc))
    ELSE Return(Failure(u, "failed", "Timeout", 0))

\* mutant: 403 is not recognised as an authentication error
OnHTTPError_Only401(u, rc, mr, code) ==
    IF code = 401
    THEN Return(Failure(u, "auth_required", "Authentication required (HTTP)", code))
    ELSE IF rc < mr /\ code \in RetryableCodes \cup {403}
         THEN Retry(Pow(3, rc))
         ELSE Return(Failure(u, "failed", "HTTP", code))

\* an exhausted transient status is reported as a timeout
OnHTTPError_ReportsTimeout(u, rc, mr, code) ==
    IF code \in AuthCodes
    THEN Return(Failure(u, "auth_required", "Authentication required (HTTP)", code))
    ELSE IF rc < mr /\ code \in RetryableCodes
         THEN Retry(Pow(3, rc))
         ELSE IF code \in RetryableCodes
              THEN Return(Failure(u, "failed", "Timeout", 0))
              ELSE Return(Failure(u, "failed", "HTTP", code))

\* a transient status waits as a timeout does
OnHTTPError_TimeoutBackoff(u, rc, mr, code) ==
    IF code \in AuthCodes
    THEN Return(Failure(u, "auth_required", "Authentication required (HTTP)", code))
    ELSE IF rc < mr /\ code \in RetryableCodes
         THEN Retry(Pow(2, rc))
         ELSE Return(Failure(u, "failed", "HTTP", code))

\* mutant: a transient status is retried whatever the retry count
OnHTTPError_NoBound(u, rc, mr, code) ==
    IF code \in AuthCodes
    THEN Return(Failure(u, "auth_required", "Authentication required (HTTP)", code))
    ELSE IF rc <= mr /\ code \in RetryableCodes
         THEN Retry(Pow(3, rc))
         ELSE Return(Failure(u, "failed", "HTTP", code))

OnHTTPError(u, rc, mr, code) ==
    IF code \in AuthCodes
    THEN Return(Failure(u, "auth_required", "Authentication required (HTTP)", code))
    ELSE IF rc < mr /\ code \in RetryableCodes
         THEN Retry(Pow(3, rc))
         ELSE Return(Failure(u, "failed", "HTTP", code))

\* mutant: no catch-all handler, the exception escapes
OnException_Escapes(u) == Raise

OnException(u) ==
    Return(Failure(u, "failed", "exception", 0))

Handle(u, rc, mr, o) ==
    CASE o.kind = "ok" -> OnSuccess(u)
      [] o.kind = "timeout" -> OnTimeout(u, rc, mr)
      [] o.kind = "http" -> OnHTTPError(u, rc, mr, o.code)
      [] OTHER -> OnException(u)

\* entry of a (non-recursive) call
FetchCall(u, rc, mr) ==
    /\ fetch_pc' = "request"
    /\ url' = u
    /\ retry_count' = rc
    /\ max_retries' = mr
    /\ outcomes' = <<>>
    /\ waits' = <<>>
    /\ fetch_result' = NoResult

\* one requests.get and the handler that follows it
FetchAttempt ==
    /\ fetch_pc = "request"
    /\ \E o \in net :
         LET h == Handle(url, retry_count, max_retries, o) IN
           /\ outcomes' = Append(outcomes, o)
           /\ fetch_pc' = h.next
           /\ fetch_result' = h.result
           /\ waits' = IF h.next = "request" THEN Append(waits, h.sleep) ELSE waits
           /\ retry_count' = IF h.next = "request" THEN retry_count + 1 ELSE retry_count
    /\ UNCHANGED <<net, url, max_retries, crawl_vars, match_vars, run_vars>>

\* the call has returned to its caller: its frame is gone
FetchIdle ==
    /\ fetch_pc' = "idle"
    /\ url' = 0
    /\ retry_count' = 0
    /\ max_retries' = 0
    /\ outcomes' = <<>>
    /\ waits' = <<>>
    /\ fetch_result' = NoResult

\* ------------------------------------------------------------------------
\* crawl_urls
\* ------------------------------------------------------------------------
NoProgress == [num |-> 0, den |-> 1]

NoText == [idx |-> 0, url |-> 0]

\* mutant: a failed fetch leaves no entry in results
ResultsAfter_SkipFailed(res, r) == IF r.status = "failed" THEN res ELSE Append(res, r)

\* line 160: results.append(content)
ResultsAfter(res, r) == Append(res, r)

\* every url that was not fetched successfully is listed
AuthRequiredAfter_NotSuccess(auth, r, u) == IF r.status # "success" THEN Append(auth, u) ELSE auth

\* lines 163-164: auth_required.append(url) for an 'auth_required' result
AuthRequiredAfter(auth, r, u) == IF r.status = "auth_required" THEN Append(auth, u) ELSE auth

CrawlCall(list) ==
    /\ crawl_pc' = "loop"
    /\ url_list' = list
    /\ i' = 0
    /\ results' = <<>>
    /\ auth_required' = <<>>
    /\ progress' = NoProgress
    /\ status_text' = NoText

CrawlIdle ==
    /\ crawl_pc' = "idle"
    /\ url_list' = <<>>
    /\ i' = 0
    /\ results' = <<>>
    /\ auth_required' = <<>>
    /\ progress' = NoProgress
    /\ status_text' = NoText

\* line 156: the text shown for the url at index k
StatusFor(k, u) == [idx |-> k + 1, url |-> u]

\* the fraction of the urls done before the one at index k
ProgressFor_Completed(k, total) == [num |-> k, den |-> total]

\* line 157: the fraction shown for the url at index k
ProgressFor(k, total) == [num |-> k + 1, den |-> total]

\* loop head up to the call of fetch_page_content
CrawlIter ==
    /\ crawl_pc = "loop"
    /\ i < Len(url_list)
    /\ status_text' = StatusFor(i, url_list[i + 1])
    /\ progress' = ProgressFor(i, Len(url_list))
    /\ FetchCall(url_list[i + 1], 0, DefaultMaxRetries)
    /\ crawl_pc' = "fetching"
    /\ UNCHANGED <<net, url_list, i, results, auth_required, match_vars, run_vars>>

\* the rest of the loop body, once fetch_page_content has returned
CrawlAppend ==
    /\ crawl_pc = "fetching"
    /\ fetch_pc \in {"done", "raised"}
    /\ IF fetch_pc = "raised"
       THEN /\ crawl_pc' = "raised"
            /\ UNCHANGED <<results, auth_required, i>>
       ELSE /\ results' = ResultsAfter(results, fetch_result)
            /\ auth_required' = AuthRequiredAfter(auth_required, fetch_result, url_list[i + 1])
            /\ i' = i + 1
            /\ crawl_pc' = "loop"
    /\ FetchIdle
    /\ UNCHANGED <<net, url_list, progress, status_text, match_vars, run_vars>>

CrawlReturn ==
    /\ crawl_pc = "loop"
    /\ i = Len(url_list)
    /\ crawl_pc' = "done"
    /\ UNCHANGED <<net, fetch_vars, url_list, i, results, auth_required, progress, status_text,
                   match_vars, run_vars>>

\* ------------------------------------------------------------------------
\* match_urls
\* ------------------------------------------------------------------------
Models == {"gemini-3-flash-preview", "gemini-3-pro-preview"}

\* 'flash' in model_name, over the two names the radio offers
HasFlash(name) == name = "gemini-3-flash-preview"

FlashBatchSize == 100

OtherBatchSize == 50

BatchSize(name) == IF HasFlash(name) THEN FlashBatchSize ELSE OtherBatchSize

Min(a, b) == IF a < b THEN a ELSE b

IsSuccess(item) == item.status = "success"

\* {'url': url} for url in ...
UrlOnly(list) == [k \in 1..Len(list) |-> [url |-> list[k]]]

\* lines 174-179: what the loop sees as old_data
PrepareOld(old, cr) == IF cr THEN SelectSeq(old, IsSuccess) ELSE UrlOnly(old)

\* lines 174-176: what the loop sees as new_data
PrepareNew(new, cr) == IF cr THEN new ELSE UrlOnly(new)

\* mutant: the last, shorter batch is not counted
TotalBatches_Floor(n, bs) == n \div bs

TotalBatches(n, bs) == (n + bs - 1) \div bs

\* old_data[start_idx:end_idx] of batch b (0-based b)
OldBatch(data, bs, b) == SubSeq(data, b * bs + 1, Min(b * bs + bs, Len(data)))

\* The items the prompt renders (lines 192-223).  The rendered text carries
\* url and signals only; the model keeps the items themselves.
\* mutant: the new side is not filtered by crawl status
NewPool_Unfiltered(new, cr) == new

NewPool(new, cr) == IF cr THEN SelectSeq(new, IsSuccess) ELSE new

\* the new side is cut to the length of the old batch
Prompt_SlicedPool(batch, new, cr) ==
    [old |-> batch, new |-> SubSeq(NewPool(new, cr), 1, Min(Len(batch), Len(NewPool(new, cr))))]

Prompt(batch, new, cr) == [old |-> batch, new |-> NewPool(new, cr)]

\* ---- the inference service's answers ----
Rec(o, n, c) == [oldUrl |-> o, newUrl |-> n, confidence |-> c, reason |-> "r"]

Json(t, items) == [type |-> t, items |-> items]

\* generate_content raised, or response.text is unusable
InvokeError == [kind |-> "error", fence |-> FALSE, json |-> Json("none", <<>>)]

\* response.text: a JSON document, possibly wrapped in ```json ... ```
Text(fence, j) == [kind |-> "text", fence |-> fence, json |-> j]

\* confidences are hundredths: 95 is 0.95
Responses ==
    { InvokeError,
      Text(FALSE, Json("malformed", <<>>)),
      Text(FALSE, Json("array", <<>>)),
      Text(FALSE, Json("array", <<Rec(1, 1, 95)>>)),
      Text(TRUE, Json("array", <<Rec(1, 1, 80), Rec(1, 2, 60)>>)),
      Text(TRUE, Json("array", <<Rec(2, 1, 30), Rec(1, 1, 95)>>)),
      Text(FALSE, Json("array", <<Rec(2, 2, 150)>>)),
      Text(FALSE, Json("array", <<[number |-> 7]>>)),
      Text(FALSE, Json("object", <<Rec(1, 1, 95)>>)),
      Text(FALSE, Json("scalar", <<>>)) }

\* line 252: the code-fence markers are removed from the text
CleanText(t) == [t EXCEPT !.fence = FALSE]

\* json.loads: a document still wrapped in a fence, or malformed, does not parse
Loads(t) == IF t.fence \/ t.json.type = "malformed" THEN Json("error", <<>>) ELSE t.json

Keys == <<[key |-> "oldUrl"], [key |-> "newUrl"], [key |-> "confidence"], [key |-> "reason"]>>

\* list.extend(v): the elements of a list, the keys of a dict, TypeError otherwise
Iterable(v) == v.type \in {"array", "object"}

RECURSIVE DedupByOld(_)
DedupByOld(recs) ==
    IF recs = <<>>
    THEN <<>>
    ELSE LET front == DedupByOld(SubSeq(recs, 1, Len(recs) - 1))
             last == recs[Len(recs)]
         IN IF \E k \in 1..Len(front) : front[k].oldUrl = last.oldUrl
            THEN front
            ELSE Append(front, last)

\* mutant: a second record for the same oldUrl is dropped
Elements_Dedup(v) == IF v.type = "array" THEN DedupByOld(v.items) ELSE Keys

Elements(v) == IF v.type = "array" THEN v.items ELSE Keys

\* lines 245-258: the try statement of one batch
Parsed(resp) == IF resp.kind = "error" THEN Json("error", <<>>) ELSE Loads(CleanText(resp))

BatchOk(resp) == Iterable(Parsed(resp))

\* mutant: the error of a batch is not caught
OnBatchError_Raise == "raised"

\* what the except clause does with a failed batch
OnBatchError == "continue"

MatchCall(name, old, new, cr) ==
    /\ match_pc' = "loop"
    /\ model_name' = name
    /\ crawled' = cr
    /\ old_data' = PrepareOld(old, cr)
    /\ new_data' = PrepareNew(new, cr)
    /\ batch_size' = BatchSize(name)
    /\ total_batches' = TotalBatches(Len(PrepareOld(old, cr)), BatchSize(name))
    /\ batch_num' = 0
    /\ all_matches' = <<>>
    /\ requests' = <<>>
    /\ responses' = <<>>
    /\ match_events' = <<>>
    /\ match_progress' = NoProgress

MatchIdle ==
    /\ match_pc' = "idle"
    /\ model_name' = ""
    /\ crawled' = FALSE
    /\ old_data' = <<>>
    /\ new_data' = <<>>
    /\ batch_size' = 0
    /\ total_batches' = 0
    /\ batch_num' = 0
    /\ all_matches' = <<>>
    /\ requests' = <<>>
    /\ responses' = <<>>
    /\ match_events' = <<>>
    /\ match_progress' = NoProgress

\* one iteration of the batch loop
MatchBatch ==
    /\ match_pc = "loop"
    /\ batch_num < total_batches
    /\ match_progress' = [num |-> batch_num + 1, den |-> total_batches]
    /\ requests' = Append(requests, Prompt(OldBatch(old_data, batch_size, batch_num), new_data, crawled))
    /\ \E resp \in Responses :
         /\ responses' = Append(responses, resp)
         /\ IF BatchOk(resp)
            THEN /\ all_matches' = all_matches \o Elements(Parsed(resp))
                 /\ match_events' = match_events \o <<"invoke", "sleep">>
                 /\ batch_num' = batch_num + 1
                 /\ match_pc' = "loop"
            ELSE /\ all_matches' = all_matches
                 /\ match_events' = match_events \o <<"invoke", "error">>
                 /\ IF OnBatchError = "continue"
                    THEN batch_num' = batch_num + 1 /\ match_pc' = "loop"
                    ELSE batch_num' = batch_num /\ match_pc' = OnBatchError
    /\ UNCHANGED <<net, fetch_vars, crawl_vars, run_vars, model_name, crawled, old_data,
                   new_data, batch_size, total_batches>>

MatchReturn ==
    /\ match_pc = "loop"
    /\ batch_num >= total_batches
    /\ match_pc' = "done"
    /\ UNCHANGED <<net, fetch_vars, crawl_vars, run_vars, model_name, crawled, old_data,
                   new_data, batch_size, total_batches, batch_num, all_matches, requests,
                   responses, match_events, match_progress>>

\* ------------------------------------------------------------------------
\* The script: session state, widgets and the "Start Matching" handler
\* ------------------------------------------------------------------------
\* lines 464-486: the summary of the results section. Confidences are
\* hundredths: 80 is 0.8
HasConfidence(m) == "confidence" \in DOMAIN m

\* nothing drawn: the matches are empty (line 464)
NoStats == [kind |-> "none"]

\* m['confidence'] raised on an element that is not a match record
StatsError == [kind |-> "error"]

\* line 478
High(c) == c >= 80

\* the medium band without its lower boundary
Medium_Exclusive(c) == 60 < c /\ c < 80

\* line 479
Medium(c) == 60 <= c /\ c < 80

\* line 480
Low(c) == c < 60

high_conf(ms) == Cardinality({k \in 1..Len(ms) : High(ms[k].confidence)})

medium_conf(ms) == Cardinality({k \in 1..Len(ms) : Medium(ms[k].confidence)})

low_conf(ms) == Cardinality({k \in 1..Len(ms) : Low(ms[k].confidence)})

Summary(ms) ==
    IF Len(ms) = 0 THEN NoStats
    ELSE IF \E k \in 1..Len(ms) : ~HasConfidence(ms[k]) THEN StatsError
    ELSE [kind |-> "stats",
          total |-> Len(ms),
          high |-> high_conf(ms),
          medium |-> medium_conf(ms),
          low |-> low_conf(ms)]

\* lines 39-52: the session state of a new session
SessionInit ==
    /\ matches = <<>>
    /\ crawl_results_old = <<>>
    /\ crawl_results_new = <<>>
    /\ processing = FALSE
    /\ processing_complete = FALSE
    /\ auth_required_urls = <<>>

\* lines 282-350: one widget gets a new value; a file is uploaded, replaced or
\* removed
WidgetChange ==
    \/ api_key' = ~api_key
       /\ UNCHANGED <<old_file, new_file, old_urls, new_urls, crawl_enabled, model_choice>>
    \/ crawl_enabled' = ~crawl_enabled
       /\ UNCHANGED <<api_key, old_file, new_file, old_urls, new_urls, model_choice>>
    \/ model_choice' \in Models \ {model_choice}
       /\ UNCHANGED <<api_key, old_file, new_file, old_urls, new_urls, crawl_enabled>>
    \/ \E up \in BOOLEAN :
          /\ old_file' = up
          /\ old_urls' \in IF up THEN SeqsUpTo(OldSite, MaxRunUrls) ELSE {<<>>}
          /\ UNCHANGED <<api_key, new_file, new_urls, crawl_enabled, model_choice>>
    \/ \E up \in BOOLEAN :
          /\ new_file' = up
          /\ new_urls' \in IF up THEN SeqsUpTo(NewSite, MaxRunUrls) ELSE {<<>>}
          /\ UNCHANGED <<api_key, old_file, old_urls, crawl_enabled, model_choice>>

\* the user changes one widget and the script reruns with the new value
SetInputs ==
    /\ run_pc = "idle"
    /\ WidgetChange
    /\ stats' = Summary(matches)
    /\ UNCHANGED <<net, fetch_vars, crawl_vars, match_vars, session_vars, run_pc, ui_error, runs>>

\* line 355
start_button_disabled == processing \/ ~(old_file /\ new_file /\ api_key)

\* lines 367-370: the session state a run starts with
RunReset ==
    /\ processing' = TRUE
    /\ processing_complete' = FALSE
    /\ matches' = <<>>
    /\ auth_required_urls' = <<>>

CountStatus(res, st) == Cardinality({k \in 1..Len(res) : res[k].status = st})

\* lines 396-401 and 412-417: the urls added to auth_required_urls after a crawl
AuthUrlsAfter(urls, res, auth) == IF CountStatus(res, "auth_required") > 0 THEN urls \o auth ELSE urls

\* the handler without its API key check
ConfigError_FilesOnly(key, ofile, nfile) ==
    IF ~ofile \/ ~nfile THEN "files"
    ELSE "none"

\* lines 362-365: what the handler finds missing
ConfigError(key, ofile, nfile) ==
    IF ~key THEN "api_key"
    ELSE IF ~ofile \/ ~nfile THEN "files"
    ELSE "none"

\* the except clause without the finally clause: processing stays set
RunFailed_NoFinally ==
    /\ ui_error' = "exception"
    /\ processing_complete' = FALSE
    /\ processing' = TRUE
    /\ run_pc' = "idle"

\* lines 455-461 after an exception inside the try block
RunFailed ==
    /\ ui_error' = "exception"
    /\ processing_complete' = FALSE
    /\ processing' = FALSE
    /\ run_pc' = "idle"

\* the press of the button up to the first call that blocks. The button was
\* enabled when the script last drew it (line 355); the script run that handles
\* the press reads the widgets again (lines 282-350) before it reaches line 361,
\* and a widget changed together with the press has its new value there.
StartMatching ==
    /\ run_pc = "idle"
    /\ ~start_button_disabled
    /\ runs < MaxRuns
    /\ runs' = runs + 1
    /\ \/ UNCHANGED widget_vars
       \/ WidgetChange
    /\ IF ConfigError(api_key', old_file', new_file') # "none"
       THEN /\ ui_error' = ConfigError(api_key', old_file', new_file')
            /\ UNCHANGED <<session_vars, run_pc, crawl_vars, match_vars>>
       ELSE \E client_ok \in BOOLEAN :
              IF ~client_ok
              THEN \* genai.Client raised: except and finally clauses, then rerun
                   /\ RunFailed
                   /\ matches' = <<>>
                   /\ auth_required_urls' = <<>>
                   /\ UNCHANGED <<crawl_results_old, crawl_results_new, crawl_vars, match_vars>>
              ELSE /\ ui_error' = "none"
                   /\ RunReset
                   /\ UNCHANGED <<crawl_results_old, crawl_results_new>>
                   /\ IF crawl_enabled'
                      THEN /\ run_pc' = "crawl_old"
                           /\ CrawlCall(old_urls')
                           /\ UNCHANGED match_vars
                      ELSE /\ run_pc' = "match"
                           /\ MatchCall(model_choice', old_urls', new_urls', FALSE)
                           /\ UNCHANGED crawl_vars
    /\ stats' = Summary(matches')
    /\ UNCHANGED <<net, fetch_vars>>

\* the handler goes on while the crawl is between two urls
CrawlFinished_BetweenUrls == crawl_pc \in {"loop", "done", "raised"}

\* lines 391 and 407: the call of crawl_urls is over, the handler goes on
CrawlFinished == crawl_pc \in {"done", "raised"}

\* lines 391-407: the old crawl has returned, the new crawl is called
RunCrawledOld ==
    /\ run_pc = "crawl_old"
    /\ CrawlFinished
    /\ IF crawl_pc = "raised"
       THEN /\ RunFailed
            /\ CrawlIdle
            /\ UNCHANGED <<matches, crawl_results_old, auth_required_urls>>
       ELSE /\ crawl_results_old' = results
            /\ auth_required_urls' = AuthUrlsAfter(auth_required_urls, results, auth_required)
            /\ CrawlCall(new_urls)
            /\ run_pc' = "crawl_new"
            /\ UNCHANGED <<matches, processing, processing_complete, ui_error>>
    /\ stats' = Summary(matches')
    /\ UNCHANGED <<net, fetch_vars, match_vars, crawl_results_new, widget_vars, runs>>

\* lines 407-448: the new crawl has returned, match_urls is called
RunCrawledNew ==
    /\ run_pc = "crawl_new"
    /\ CrawlFinished
    /\ IF crawl_pc = "raised"
       THEN /\ RunFailed
            /\ UNCHANGED <<matches, crawl_results_new, auth_required_urls, match_vars>>
       ELSE /\ crawl_results_new' = results
            /\ auth_required_urls' = AuthUrlsAfter(auth_required_urls, results, auth_required)
            /\ MatchCall(model_choice, crawl_results_old, results, crawl_enabled)
            /\ run_pc' = "match"
            /\ UNCHANGED <<matches, processing, processing_complete, ui_error>>
    /\ CrawlIdle
    /\ stats' = Summary(matches')
    /\ UNCHANGED <<net, fetch_vars, crawl_results_old, widget_vars, runs>>

\* lines 440-461: match_urls has returned, the run ends and the script reruns
RunMatched ==
    /\ run_pc = "match"
    /\ match_pc \in {"done", "raised"}
    /\ IF match_pc = "raised"
       THEN /\ RunFailed
            /\ UNCHANGED matches
       ELSE /\ matches' = all_matches
            /\ processing_complete' = TRUE
            /\ processing' = FALSE
            /\ run_pc' = "idle"
            /\ UNCHANGED ui_error
    /\ MatchIdle
    /\ stats' = Summary(matches')
    /\ UNCHANGED <<net, fetch_vars, crawl_vars, crawl_results_old, crawl_results_new,
                   auth_required_urls, widget_vars, runs>>

\* ------------------------------------------------------------------------
\* Specifications
\* ------------------------------------------------------------------------
\* nothing has been called yet
NothingCalled ==
    /\ fetch_pc = "idle"
    /\ url = 0
    /\ retry_count = 0
    /\ max_retries = 0
    /\ outcomes = <<>>
    /\ waits = <<>>
    /\ fetch_result = NoResult
    /\ crawl_pc = "idle"
    /\ url_list = <<>>
    /\ i = 0
    /\ results = <<>>
    /\ auth_required = <<>>
    /\ progress = NoProgress
    /\ status_text = NoText
    /\ match_pc = "idle"
    /\ model_name = ""
    /\ crawled = FALSE
    /\ old_data = <<>>
    /\ new_data = <<>>
    /\ batch_size = 0
    /\ total_batches = 0
    /\ batch_num = 0
    /\ all_matches = <<>>
    /\ requests = <<>>
    /\ responses = <<>>
    /\ match_events = <<>>
    /\ match_progress = NoProgress
    /\ stats = NoStats
    /\ api_key = FALSE
    /\ old_file = FALSE
    /\ new_file = FALSE
    /\ old_urls = <<>>
    /\ new_urls = <<>>
    /\ crawl_enabled = FALSE
    /\ model_choice = "gemini-3-flash-preview"
    /\ run_pc = "idle"
    /\ ui_error = "none"
    /\ runs = 0

\* a new session
Idle == NothingCalled /\ SessionInit

\* ---- one call of fetch_page_content, over its arguments and every network behaviour
FetchStart ==
    /\ fetch_pc = "idle"
    /\ \E u \in Urls, rc \in 0..MaxStartRetry, mr \in 0..MaxMaxRetries : FetchCall(u, rc, mr)
    /\ UNCHANGED <<net, crawl_vars, match_vars, run_vars>>

InitFetch == net = AllOutcomes /\ Idle

NextFetch == FetchStart \/ FetchAttempt

SpecFetch == InitFetch /\ [][NextFetch]_vars

\* the same call under the scheduling the code has: every request ends,
\* with an answer or with the 15 second timeout
FairFetch == SpecFetch /\ WF_vars(FetchAttempt)

\* ------------------------------------------------------------------------
\* Properties of fetch_page_content
\* ------------------------------------------------------------------------
\* retry_count the call was entered with
StartRetry == retry_count - Len(waits)

Attempts == Len(outcomes)

AllTimeouts == \A k \in 1..Len(outcomes) : outcomes[k].kind = "timeout"

LastOutcome == outcomes[Len(outcomes)]

\* C2: a fetch entered with retry count 0 whose every attempt timed out is over
\* exactly when max_retries + 1 requests have been made, never makes more, and
\* is then 'failed' with error 'Timeout'.
C2_TimeoutExhaustion ==
    (fetch_pc \in {"request", "done"} /\ StartRetry = 0 /\ AllTimeouts) =>
        /\ Attempts <= max_retries + 1
        /\ (fetch_pc = "done") <=> (Attempts = max_retries + 1)
        /\ fetch_pc = "done" =>
             /\ fetch_result.status = "failed"
             /\ fetch_result.error = [msg |-> "Timeout", code |-> 0]

C2_Witness ==
    /\ fetch_pc = "done"
    /\ StartRetry = 0
    /\ max_retries = 3
    /\ AllTimeouts
    /\ Attempts = 4
    /\ fetch_result.status = "failed"

\* C3: an attempt answered with HTTP 401 or 403 is the last attempt of the fetch,
\* whatever the retry count, and the fetch has ended with status 'auth_required';
\* as the first attempt it is the only one.
C3_AuthIsTerminal ==
    \A k \in 1..Len(outcomes) :
        (outcomes[k].kind = "http" /\ outcomes[k].code \in {401, 403}) =>
            /\ k = Len(outcomes)
            /\ fetch_pc = "done"
            /\ fetch_result.status = "auth_required"

C3_Witness ==
    /\ fetch_pc = "done"
    /\ Attempts = 3
    /\ retry_count < max_retries
    /\ LastOutcome = Outcome("http", 403)
    /\ fetch_result.status = "auth_required"

\* C7: whatever the attempts' outcomes, no exception leaves fetch_page_content,
\* a returned record has one of the three statuses and the requested url, and
\* every call that has been entered returns.
C7_Safe ==
    /\ fetch_pc # "raised"
    /\ fetch_pc = "done" =>
         /\ fetch_result.status \in {"success", "failed", "auth_required"}
         /\ fetch_result.url = url

C7_NeverThrows == [](C7_Safe) /\ ((fetch_pc = "request") ~> (fetch_pc = "done"))

C7_Witness ==
    /\ fetch_pc = "done"
    /\ Attempts = 2
    /\ LastOutcome.kind = "exception"
    /\ fetch_result.status = "failed"
    /\ fetch_result.url = url

\* C8: an attempt answered with an HTTP error status other than 401/403 is
\* followed by a retry exactly when the status is one of 429, 500, 502, 503, 504
\* and the retry count is below max_retries; otherwise the fetch ends at that
\* attempt as 'failed' with that status as its error.
C8_Step ==
    (/\ fetch_pc = "request"
     /\ Len(outcomes') = Len(outcomes) + 1
     /\ outcomes'[Len(outcomes')].kind = "http"
     /\ outcomes'[Len(outcomes')].code \notin {401, 403}) =>
        LET code == outcomes'[Len(outcomes')].code IN
          /\ (fetch_pc' = "request") <=>
                 (code \in {429, 500, 502, 503, 504} /\ retry_count < max_retries)
          /\ fetch_pc' = "request" => retry_count' = retry_count + 1
          /\ fetch_pc' # "request" =>
               /\ fetch_pc' = "done"
               /\ fetch_result'.status = "failed"
               /\ fetch_result'.error = [msg |-> "HTTP", code |-> code]

C8_HttpRetryRule == [][C8_Step]_vars

C8_Witness ==
    /\ fetch_pc = "done"
    /\ StartRetry = 0
    /\ Attempts = max_retries + 1
    /\ Attempts >= 2
    /\ \A k \in 1..Len(outcomes) : outcomes[k] = Outcome("http", 503)
    /\ fetch_result.error = [msg |-> "HTTP", code |-> 503]

RECURSIVE Sum(_)
Sum(seq) == IF seq = <<>> THEN 0 ELSE seq[1] + Sum(Tail(seq))

AllTransient ==
    \A k \in 1..Len(outcomes) :
        outcomes[k].kind = "http" /\ outcomes[k].code \in {429, 500, 502, 503, 504}

\* the retry count at which the j-th attempt of the call was made
RetryAt(j) == StartRetry + j - 1

\* C19: the wait after a timeout at retry count k is 2^k and after a
\* transient HTTP error 3^k, the latter the larger for k >= 1; only an attempt
\* that is retried is followed by a wait, so none follows the final attempt.
\* From retry count 0 with max_retries = 3 a fetch that always times out waits
\* 1, 2, 4 (7 in total) and one that always meets a transient error 1, 3, 9 (13).
C19_BackoffSchedule ==
    fetch_pc \in {"request", "done"} =>
        /\ Len(waits) = (IF fetch_pc = "done" THEN Attempts - 1 ELSE Attempts)
        /\ \A j \in 1..Len(waits) :
             /\ outcomes[j].kind \in {"timeout", "http"}
             /\ outcomes[j].kind = "timeout" => waits[j] = 2 ^ RetryAt(j)
             /\ outcomes[j].kind = "http" =>
                  /\ waits[j] = 3 ^ RetryAt(j)
                  /\ RetryAt(j) >= 1 => waits[j] > 2 ^ RetryAt(j)
        /\ (fetch_pc = "done" /\ StartRetry = 0 /\ max_retries = 3 /\ AllTimeouts) =>
             (waits = <<1, 2, 4>> /\ Sum(waits) = 7)
        /\ (fetch_pc = "done" /\ StartRetry = 0 /\ max_retries = 3 /\ AllTransient) =>
             (waits = <<1, 3, 9>> /\ Sum(waits) = 13)

C19_Witness ==
    /\ fetch_pc = "done"
    /\ StartRetry = 0
    /\ max_retries = 3
    /\ Attempts = 4
    /\ outcomes[1].kind = "timeout"
    /\ outcomes[2] = Outcome("http", 503)
    /\ outcomes[3].kind = "timeout"
    /\ outcomes[4] = Outcome("http", 429)
    /\ waits = <<1, 3, 4>>

\* an attempt that timed out or met a transient HTTP status
Retryable(o) ==
    \/ o.kind = "timeout"
    \/ o.kind = "http" /\ o.code \in {429, 500, 502, 503, 504}

\* the attempts a call entered with retry count s may make
AttemptsAllowed(s, mr) == IF s < mr THEN mr - s + 1 ELSE 1

\* C21 (safety part): timeouts and transient HTTP errors count on one retry
\* counter; whatever their interleaving the counter is the start count plus
\* the retried attempts, every retried attempt being of either kind, and the
\* attempts never exceed max_retries + 1 from count 0; a fetch whose last
\* allowed attempt failed is 'failed' with that attempt's error.
C21_Safe ==
    fetch_pc \in {"request", "done"} =>
        /\ Attempts <= AttemptsAllowed(StartRetry, max_retries)
        /\ StartRetry = 0 => Attempts <= max_retries + 1
        /\ retry_count = StartRetry + (IF fetch_pc = "done" THEN Attempts - 1 ELSE Attempts)
        /\ \A k \in 1..(Attempts - 1) : Retryable(outcomes[k])
        /\ (fetch_pc = "done" /\ Retryable(LastOutcome)) =>
             /\ retry_count >= max_retries
             /\ fetch_result.status = "failed"
             /\ fetch_result.error =
                    (IF LastOutcome.kind = "timeout"
                     THEN [msg |-> "Timeout", code |-> 0]
                     ELSE [msg |-> "HTTP", code |-> LastOutcome.code])

\* C21: the above, and a fetch that has been entered terminates.
C21_SharedRetryCounter == [](C21_Safe) /\ ((fetch_pc = "request") ~> (fetch_pc = "done"))

C21_Witness ==
    /\ fetch_pc = "done"
    /\ StartRetry = 0
    /\ max_retries = 3
    /\ Attempts = 4
    /\ outcomes[1] = Outcome("http", 503)
    /\ outcomes[2].kind = "timeout"
    /\ outcomes[3].kind = "timeout"
    /\ outcomes[4] = Outcome("http", 502)
    /\ fetch_result.status = "failed"
    /\ fetch_result.error = [msg |-> "HTTP", code |-> 502]

\* ---- one call of crawl_urls, over every url list and every network behaviour
CrawlStart ==
    /\ crawl_pc = "idle"
    /\ \E list \in SeqsUpTo(Urls, MaxCrawlUrls) : CrawlCall(list)
    /\ UNCHANGED <<net, fetch_vars, match_vars, run_vars>>

InitCrawl == net = AllOutcomes /\ Idle

NextCrawl == CrawlStart \/ CrawlIter \/ FetchAttempt \/ CrawlAppend \/ CrawlReturn

SpecCrawl == InitCrawl /\ [][NextCrawl]_vars

\* ------------------------------------------------------------------------
\* Properties of crawl_urls
\* ------------------------------------------------------------------------
\* C1: crawl_urls returns, for every url list and every outcome of the fetches,
\* one result per input url, the k-th result carrying the k-th url; while the
\* loop runs the results are that list's first i entries.
C1_ResultsFollowInput ==
    /\ crawl_pc # "raised"
    /\ crawl_pc \in {"loop", "fetching", "done"} =>
         /\ Len(results) = i
         /\ i <= Len(url_list)
         /\ \A k \in 1..Len(results) : results[k].url = url_list[k]
    /\ crawl_pc = "done" => Len(results) = Len(url_list)

C1_Witness ==
    /\ crawl_pc = "done"
    /\ url_list = <<2, 2>>
    /\ Len(results) = 2
    /\ results[1].status = "failed"
    /\ results[2].status = "success"

\* the fetches of the call that have returned
Completed == Len(results)

\* C15 as stated: progress and status text for the url at index i are reported
\* after its fetch has completed, so the fraction shown never exceeds the
\* completed fetches over the total.
C15_ReportedAfterFetch ==
    crawl_pc \in {"loop", "fetching", "done"} =>
        /\ progress.num * Len(url_list) <= Completed * progress.den
        /\ status_text.idx <= Completed

\* C15, amended: progress (i+1)/total and the status text for the url at index
\* i are reported before that url is fetched; while it is being fetched the
\* fraction shown is (completed + 1)/total and the text names that url, between
\* fetches the fraction is completed/total, and it never exceeds
\* (completed + 1)/total.
C15_ReportedBeforeFetch ==
    /\ crawl_pc = "fetching" =>
         /\ Completed = i
         /\ progress = [num |-> Completed + 1, den |-> Len(url_list)]
         /\ status_text = [idx |-> i + 1, url |-> url_list[i + 1]]
         /\ url = url_list[i + 1]
    /\ (crawl_pc \in {"loop", "done"} /\ i > 0) =>
         /\ progress = [num |-> Completed, den |-> Len(url_list)]
         /\ status_text = [idx |-> i, url |-> url_list[i]]
    /\ (crawl_pc \in {"loop", "done"} /\ i = 0) =>
         /\ progress = NoProgress
         /\ status_text = NoText

C15_Witness ==
    /\ crawl_pc = "fetching"
    /\ fetch_pc = "request"
    /\ url_list = <<1, 2>>
    /\ Completed = 1
    /\ progress = [num |-> 2, den |-> 2]
    /\ status_text = [idx |-> 2, url |-> 2]

\* the urls among the first n of the input whose result is 'auth_required',
\* in input order, a repeated url once for each such result
RECURSIVE AuthSubsequence(_, _, _)
AuthSubsequence(list, res, n) ==
    IF n = 0 THEN <<>>
    ELSE IF res[n].status = "auth_required"
         THEN Append(AuthSubsequence(list, res, n - 1), list[n])
         ELSE AuthSubsequence(list, res, n - 1)

\* C17: the auth-required list crawl_urls builds and returns is the
\* subsequence of the input urls whose result has status 'auth_required', in
\* input order and with repeats kept; its length is the number of such results.
C17_AuthRequiredSubsequence ==
    crawl_pc \in {"loop", "done"} =>
        /\ auth_required = AuthSubsequence(url_list, results, Len(results))
        /\ Len(auth_required) =
               Cardinality({k \in 1..Len(results) : results[k].status = "auth_required"})

C17_Witness ==
    /\ crawl_pc = "done"
    /\ url_list = <<2, 2>>
    /\ results[1].status = "auth_required"
    /\ results[2].status = "auth_required"
    /\ auth_required = <<2, 2>>

C17_WitnessMixed ==
    /\ crawl_pc = "done"
    /\ url_list = <<2, 1>>
    /\ results[1].status = "failed"
    /\ results[2].status = "auth_required"
    /\ auth_required = <<1>>

\* ---- one call of match_urls, over item lists long enough for several batches
\* status of the k-th crawled item under pattern p: all successful, half of
\* them successful, or none
StatusAt(p, k) ==
    CASE p = 0 -> "success"
      [] p = 1 -> IF k % 4 \in {0, 1} THEN "success"
                  ELSE IF k % 4 = 2 THEN "auth_required" ELSE "failed"
      [] OTHER -> IF k % 2 = 0 THEN "failed" ELSE "auth_required"

Patterns == 0..2

\* a crawl result for url k with the given status, as fetch_page_content builds it
CrawledItem(k, st) ==
    CASE st = "success" -> OnSuccess(k).result
      [] st = "failed" -> OnTimeout(k, 0, 0).result
      [] OTHER -> OnHTTPError(k, 0, 0, 403).result

UrlList(first, n) == [k \in 1..n |-> first + k - 1]

CrawledList(first, n, p) == [k \in 1..n |-> CrawledItem(first + k - 1, StatusAt(p, k))]

\* list lengths around the batch boundaries
OldLens == {m \in 0..MaxItems : m <= 2 \/ m % OtherBatchSize \in {0, 1, OtherBatchSize - 1}}

MatchStart ==
    /\ match_pc = "idle"
    /\ \E name \in Models, cr \in BOOLEAN, m \in OldLens, n \in 0..MaxNewItems,
          p \in Patterns, q \in Patterns :
         IF cr
         THEN MatchCall(name, CrawledList(1, m, p), CrawledList(1001, n, q), TRUE)
         ELSE MatchCall(name, UrlList(1, m), UrlList(1001, n), FALSE)
    /\ UNCHANGED <<net, fetch_vars, crawl_vars, run_vars>>

InitMatch == net = AllOutcomes /\ Idle

NextMatch == MatchStart \/ MatchBatch \/ MatchReturn

SpecMatch == InitMatch /\ [][NextMatch]_vars

\* ---- the script over a session: widget changes and runs, one after another
Http(c) == Outcome("http", c)

\* what the sites of a session may answer with
NetScenarios ==
    { {Outcome("ok", 200), Http(403)},
      {Outcome("ok", 200), Http(503)} }

Init == net \in NetScenarios /\ Idle

Next ==
    \/ SetInputs
    \/ StartMatching
    \/ CrawlIter
    \/ FetchAttempt
    \/ CrawlAppend
    \/ CrawlReturn
    \/ RunCrawledOld
    \/ RunCrawledNew
    \/ MatchBatch
    \/ MatchReturn
    \/ RunMatched

Spec == Init /\ [][Next]_vars

\* ---- the results section over every list of match records
\* confidences at and around the band boundaries, and outside [0, 1]
Confidences == {-5, 0, 59, 60, 61, 79, 80, 81, 100, 150}

MatchLists == SeqsUpTo({Rec(1, 1, c) : c \in Confidences}, MaxMatches)

\* a script run that finds the matches of a finished run in the session state
InitStats ==
    /\ net = AllOutcomes
    /\ NothingCalled
    /\ matches \in MatchLists
    /\ crawl_results_old = <<>>
    /\ crawl_results_new = <<>>
    /\ processing = FALSE
    /\ processing_complete = TRUE
    /\ auth_required_urls = <<>>

\* lines 464-486
ShowResults ==
    /\ run_pc = "idle"
    /\ stats = NoStats
    /\ stats' = Summary(matches)
    /\ UNCHANGED <<net, fetch_vars, crawl_vars, match_vars, session_vars, widget_vars,
                   run_pc, ui_error, runs>>

NextStats == ShowResults

SpecStats == InitStats /\ [][NextStats]_vars

\* the same call under the scheduling the code has: the loop goes on
FairMatch == SpecMatch /\ WF_vars(MatchBatch) /\ WF_vars(MatchReturn)

\* ------------------------------------------------------------------------
\* Properties of match_urls
\* ------------------------------------------------------------------------
RECURSIVE ConcatOld(_)
ConcatOld(reqs) ==
    IF reqs = <<>> THEN <<>> ELSE ConcatOld(SubSeq(reqs, 1, Len(reqs) - 1)) \o reqs[Len(reqs)].old

\* C4: when match_urls returns, the batches it sent are ceil(m/n) in number for
\* m eligible old items and batch size n (none for m = 0), each has n items
\* except the last, which has between 1 and n, and put end to end in the order
\* sent they are the eligible old list.
C4_Partition ==
    match_pc = "done" =>
        LET m == Len(old_data)
            n == batch_size
            c == Len(requests)
        IN /\ n >= 1
           /\ c * n >= m
           /\ c > 0 => (c - 1) * n < m
           /\ \A k \in 1..c : Len(requests[k].old) >= 1 /\ Len(requests[k].old) <= n
           /\ \A k \in 1..(c - 1) : Len(requests[k].old) = n
           /\ ConcatOld(requests) = old_data

C4_Witness ==
    /\ match_pc = "done"
    /\ batch_size = 50
    /\ Len(old_data) = 101
    /\ Len(requests) = 3
    /\ Len(requests[3].old) = 1

\* C5: match_urls never raises; the k-th inference call is for the k-th batch,
\* so every batch before batch_num has been attempted once, in order, whatever
\* the earlier batches' outcomes; it returns only after all batches, and it
\* does return.
C5_Safe ==
    /\ match_pc # "raised"
    /\ match_pc \in {"loop", "done"} =>
         /\ Len(requests) = batch_num
         /\ Len(responses) = batch_num
         /\ batch_num <= total_batches
         /\ \A k \in 1..Len(requests) :
              requests[k].old =
                  SubSeq(old_data, (k - 1) * batch_size + 1, Min(k * batch_size, Len(old_data)))
    /\ match_pc = "done" => batch_num = total_batches

C5_EveryBatchAttempted == [](C5_Safe) /\ ((match_pc = "loop") ~> (match_pc = "done"))

Failed(resp) ==
    \/ resp.kind = "error"
    \/ resp.json.type \in {"malformed", "scalar"}

C5_Witness ==
    /\ match_pc = "done"
    /\ Len(responses) = 3
    /\ responses[1].kind = "error"
    /\ responses[2].json.type = "malformed"
    /\ ~Failed(responses[3])
    /\ all_matches # <<>>

\* what a batch adds to the result: the elements of the array it answered
\* with (for a JSON object, what list.extend takes from a dict: its keys),
\* nothing if the call or the parse failed
Contribution(resp) ==
    IF Failed(resp) THEN <<>>
    ELSE IF resp.json.type = "array" THEN resp.json.items
    ELSE Keys

RECURSIVE ConcatContributions(_)
ConcatContributions(resps) ==
    IF resps = <<>>
    THEN <<>>
    ELSE ConcatContributions(SubSeq(resps, 1, Len(resps) - 1)) \o Contribution(resps[Len(resps)])

C9_OnlySuccessfulItems ==
    crawled =>
        \A k \in 1..Len(requests) :
            /\ \A j \in 1..Len(requests[k].old) : requests[k].old[j].status = "success"
            /\ \A j \in 1..Len(requests[k].new) : requests[k].new[j].status = "success"

C9_Witness ==
    /\ crawled
    /\ match_pc = "done"
    /\ Len(requests) = 2
    /\ Len(old_data) = 51
    /\ \E j \in 1..Len(new_data) : new_data[j].status = "auth_required"
    /\ \E j \in 1..Len(new_data) : new_data[j].status = "failed"
    /\ Len(requests[2].new) = 1

\* the new items a request may offer: all of them, in crawled mode those
\* whose crawl succeeded
EligibleNew ==
    IF crawled THEN SelectSeq(new_data, LAMBDA item : item.status = "success") ELSE new_data

\* one iteration of the batch loop has been taken
BatchProcessed == Len(requests') = Len(requests) + 1

\* C18: every request of one match_urls call offers the same new-url pool, the
\* whole eligible new list and never a slice or a per-batch part of it, and
\* processing a batch leaves the old and the new item list as they were.
C18_SamePoolEveryBatch ==
    /\ [](\A k \in 1..Len(requests) : requests[k].new = EligibleNew)
    /\ [][BatchProcessed => (old_data' = old_data /\ new_data' = new_data)]_vars

C18_Witness ==
    /\ match_pc = "done"
    /\ ~crawled
    /\ Len(requests) = 3
    /\ Len(new_data) = 3
    /\ Len(requests[3].old) = 1
    /\ requests[1].new = new_data
    /\ requests[3].new = new_data
    /\ Failed(responses[1])

\* ------------------------------------------------------------------------
\* Properties of the run state
\* ------------------------------------------------------------------------
\* a press of Start Matching that passed the configuration check and began a run
RunStarts == run_pc = "idle" /\ run_pc' # "idle"

\* C10: every run starts with the four run-state fields empty: matches,
\* auth_required_urls, crawl_results_old and crawl_results_new hold nothing of
\* an earlier run once a later run has started.
C10_RunStartsEmpty ==
    [][RunStarts =>
          /\ matches' = <<>>
          /\ auth_required_urls' = <<>>
          /\ crawl_results_old' = <<>>
          /\ crawl_results_new' = <<>>]_vars

\* ------------------------------------------------------------------------
\* Properties of what match_urls returns
\* ------------------------------------------------------------------------
\* C11: every record match_urls returns has a confidence within [0, 1] (here
\* 0..100 hundredths): a value outside the range has been clamped or rejected.
C11_ConfidenceInUnitInterval ==
    match_pc = "done" =>
        \A k \in 1..Len(all_matches) :
            HasConfidence(all_matches[k]) =>
                /\ all_matches[k].confidence >= 0
                /\ all_matches[k].confidence <= 100

\* ------------------------------------------------------------------------
\* Properties of the configuration check
\* ------------------------------------------------------------------------
ConfigComplete == api_key /\ old_file /\ new_file

\* a crawl, a fetch, an inference loop or a run is under way
NetworkActive ==
    \/ run_pc # "idle"
    \/ crawl_pc # "idle"
    \/ fetch_pc # "idle"
    \/ match_pc # "idle"

\* a press of Start Matching handled with the API key or a file missing
PressUnconfigured == runs' = runs + 1 /\ ~ConfigComplete'

\* C12: a press handled while the API key or either file is missing shows the
\* error for what is missing and starts nothing: no crawl, fetch or inference
\* call is entered; whenever one is under way, key and both files are present.
C12_NoNetworkBeforeConfig ==
    /\ [](NetworkActive => ConfigComplete)
    /\ [][PressUnconfigured =>
            /\ ui_error' = (IF ~api_key' THEN "api_key" ELSE "files")
            /\ ~NetworkActive'
            /\ UNCHANGED <<session_vars, outcomes, requests>>]_vars

C12_Witness ==
    /\ ui_error = "api_key"
    /\ ~api_key
    /\ old_file
    /\ new_file
    /\ ~NetworkActive

\* ------------------------------------------------------------------------
\* Properties of the summary
\* ------------------------------------------------------------------------
\* the records of the list with the given confidence
With(ms, c) == Cardinality({k \in 1..Len(ms) : ms[k].confidence = c})

\* C13: for every list of match records the summary counts each record in
\* exactly one band, so that high + medium + low is the total, which is the
\* length of the list; a record at 0.8 is counted as high and one at 0.6 as
\* medium, the records just below as medium and low.
C13_BandsPartition ==
    stats.kind = "stats" =>
        /\ stats.total = Len(matches)
        /\ stats.high + stats.medium + stats.low = stats.total
        /\ stats.high >= With(matches, 80) + With(matches, 81)
        /\ stats.medium >= With(matches, 60) + With(matches, 79)
        /\ stats.low >= With(matches, 59)
        /\ \A k \in 1..Len(matches) :
             LET one == <<matches[k]>>
             IN Summary(one).high + Summary(one).medium + Summary(one).low = 1

C13_Witness ==
    /\ stats.kind = "stats"
    /\ matches = <<Rec(1, 1, 80), Rec(1, 1, 60), Rec(1, 1, 59)>>
    /\ stats = [kind |-> "stats", total |-> 3, high |-> 1, medium |-> 1, low |-> 1]

\* ------------------------------------------------------------------------
\* Properties of the pacing of the inference calls
\* ------------------------------------------------------------------------
\* C14: between any two consecutive inference calls of one match_urls call
\* there is a 1.5 second sleep, whatever the outcome of the earlier batch: also
\* after a batch whose call or parse failed.
C14_SleepBetweenCalls ==
    \A j \in 1..Len(match_events), k \in 1..Len(match_events) :
        (j < k /\ match_events[j] = "invoke" /\ match_events[k] = "invoke") =>
            \E m \in (j + 1)..(k - 1) : match_events[m] = "sleep"

\* ------------------------------------------------------------------------
\* Properties of the shape of the matches
\* ------------------------------------------------------------------------
MatchFields == {"oldUrl", "newUrl", "confidence", "reason"}

IsMatchRecord(m) == DOMAIN m = MatchFields

\* the answer is a JSON array whose every element is a match record
IsRecordArray(resp) ==
    /\ ~Failed(resp)
    /\ resp.json.type = "array"
    /\ \A k \in 1..Len(resp.json.items) : IsMatchRecord(resp.json.items[k])

RECURSIVE ConcatRecordArrays(_)
ConcatRecordArrays(resps) ==
    IF resps = <<>>
    THEN <<>>
    ELSE ConcatRecordArrays(SubSeq(resps, 1, Len(resps) - 1)) \o
            (IF IsRecordArray(resps[Len(resps)]) THEN resps[Len(resps)].json.items ELSE <<>>)

\* C16: a batch whose answer is valid JSON but not an array of match records
\* (an object, an array of other values) is handled as a parse failure and adds
\* nothing, so every element of the list match_urls builds and returns is a
\* record with oldUrl, newUrl, confidence and reason.
C16_OnlyMatchRecords ==
    match_pc \in {"loop", "done"} =>
        /\ \A k \in 1..Len(all_matches) : IsMatchRecord(all_matches[k])
        /\ all_matches = ConcatRecordArrays(responses)

\* ------------------------------------------------------------------------
\* Properties of the phases of a run
\* ------------------------------------------------------------------------
\* every url of the list has been fetched: one result for each, in order
FetchedAll(urls, res) ==
    /\ Len(res) = Len(urls)
    /\ \A k \in 1..Len(urls) : res[k].url = urls[k]

PhaseOrder ==
    { <<"idle", "crawl_old">>, <<"crawl_old", "crawl_new">>, <<"crawl_new", "match">>,
      <<"idle", "match">>, <<"crawl_old", "idle">>, <<"crawl_new", "idle">>,
      <<"match", "idle">> }

\* one thing at a time: a fetch only inside a crawl, a crawl only in a crawl
\* phase and of that phase's list, the batch loop only in the match phase
OneAtATime ==
    /\ fetch_pc # "idle" => (crawl_pc = "fetching" /\ match_pc = "idle")
    /\ crawl_pc # "idle" => (run_pc \in {"crawl_old", "crawl_new"} /\ match_pc = "idle")
    /\ match_pc # "idle" => (run_pc = "match" /\ crawl_pc = "idle" /\ fetch_pc = "idle")
    /\ run_pc = "crawl_old" => (crawl_enabled /\ url_list = old_urls /\ requests = <<>>)
    /\ run_pc = "crawl_new" => (crawl_enabled /\ url_list = new_urls /\ requests = <<>>)

\* a fetch of the new list is entered, an inference call is made
NewFetchStarts == run_pc = "crawl_new" /\ fetch_pc = "idle" /\ fetch_pc' = "request"

InferenceCall == Len(requests') = Len(requests) + 1

\* C20: in a run with crawling the phases follow one another: every fetch of
\* the old list is over before the first fetch of the new list, every fetch of
\* both lists before the first inference call, and never is more than one fetch
\* or inference call under way.
C20_PhasesInOrder ==
    /\ [](OneAtATime)
    /\ [][/\ run_pc' # run_pc => <<run_pc, run_pc'>> \in PhaseOrder
          /\ (run_pc = "idle" /\ run_pc' = "match") => ~crawl_enabled'
          /\ NewFetchStarts => FetchedAll(old_urls, crawl_results_old)
          /\ (InferenceCall /\ crawl_enabled) =>
                /\ run_pc = "match"
                /\ fetch_pc = "idle"
                /\ FetchedAll(old_urls, crawl_results_old)
                /\ FetchedAll(new_urls, crawl_results_new)]_vars

C20_Witness ==
    /\ run_pc = "match"
    /\ crawl_enabled
    /\ Len(requests) = 1
    /\ Len(old_urls) = MaxRunUrls
    /\ Len(new_urls) = MaxRunUrls
    /\ FetchedAll(old_urls, crawl_results_old)
    /\ FetchedAll(new_urls, crawl_results_new)
    /\ crawl_results_new[1].status = "failed"

\* ------------------------------------------------------------------------
\* Properties of the run flags
\* ------------------------------------------------------------------------
RunInProgress == run_pc # "idle"

\* the step that ends a run in progress
RunEnds == run_pc # "idle" /\ run_pc' = "idle"

\* match_urls has returned to the handler without an exception
MatchReturned == run_pc = "match" /\ match_pc = "done"

\* a press that got past the configuration check
RunEntered == runs' = runs + 1 /\ ConfigComplete'

\* C22: processing is set from the start of a run until the run ends and is
\* clear whenever no run is in progress, however the run ended;
\* processing_complete is clear throughout a run in progress and is set at the
\* end of a run exactly when match_urls returned without an exception, and by
\* no other step.
C22_FlagLifecycle ==
    /\ [](/\ RunInProgress => (processing /\ ~processing_complete)
          /\ ~RunInProgress => ~processing)
    /\ [][/\ RunEnds => (~processing' /\ (processing_complete' <=> MatchReturned))
          /\ (RunEntered /\ run_pc' = "idle") =>
                (~processing' /\ ~processing_complete' /\ ui_error' = "exception")
          /\ (processing_complete' /\ ~processing_complete) => (RunEnds /\ MatchReturned)]_vars

C22_Witness ==
    /\ ~RunInProgress
    /\ runs = 2
    /\ crawl_results_old # <<>>
    /\ ui_error = "exception"
    /\ ~processing
    /\ ~processing_complete

C22_WitnessCompleted ==
    /\ ~RunInProgress
    /\ runs = 1
    /\ matches # <<>>
    /\ ~processing
    /\ processing_complete

====
